---- MODULE Spec2Model ----
(***************************************************************************)
(* Model of the useNative hook (src/unnamed/part_000, lines 48-194): the   *)
(* capability detection effect and the eight capability operations, each   *)
(* with its native (Tauri) branch and its browser fallback.                *)
(*                                                                         *)
(* The environment is window.__TAURI__, window.__TAURI_NATIVE__, the       *)
(* presence of the browser Notification and clipboard APIs, the            *)
(* notification permission and localStorage.  An async operation runs to   *)
(* its first await in the step that calls it; every await is a separate    *)
(* step (module load, bridge reply, permission answer, clipboard reply,    *)
(* file picker event).                                                     *)
(***************************************************************************)
EXTENDS Naturals, Sequences, FiniteSets, Bags

\* ---------------------------------------------------------------- bounds
\* Number of operations that may be awaiting something at the same time.
MaxPending == 1

\* ---------------------------------------------------------------- domains
Paths == {"/a", "/b"}
Contents == {"", "x"}
FileNames == {"f.txt", "g.txt"}
Urls == {"https://z.os"}
\* JavaScript null / undefined, a value outside every string domain above.
NULL == "<null>"
Ops == {"readFile", "writeFile", "notify", "copyToClipboard", "readFromClipboard",
        "showOpenDialog", "showSaveDialog", "openExternal"}

VARIABLES
    tauri,          \* window.__TAURI__ is set
    tauriNative,    \* window.__TAURI_NATIVE__ is set
    hasNotifApi,    \* 'Notification' in window
    hasClipApi,     \* 'clipboard' in navigator
    permission,     \* Notification.permission
    localStorage,   \* the key-value store: a function from the present keys to their values
    capabilities,   \* the hook's state (useState)
    phase,          \* "Uninitialized" until the detection effect has run, then "Detected"
    markerAtDetect, \* history: a native marker was present when the detection effect ran
    inflight,       \* the bag of the calls that are awaiting something
    last,           \* the call that has just reached its final state; NoCall at the
                    \* start and from the moment a later call suspends
    lastStored,     \* history: path -> content of the last browser write that stored it, or NULL
    written         \* history: the paths a writeFile has resolved on (either path)

vars == <<tauri, tauriNative, hasNotifApi, hasClipApi, permission, localStorage,
          capabilities, phase, markerAtDetect, inflight, last, lastStored, written>>

envVars == <<tauri, tauriNative, hasNotifApi, hasClipApi>>
hookVars == <<capabilities, phase, markerAtDetect>>
fileVars == <<localStorage, lastStored, written>>

\* ---------------------------------------------------------------- values
\* The initial useState value: every flag false.
InitialCapabilities ==
    [isNative |-> FALSE, hasFileSystem |-> FALSE, hasNotifications |-> FALSE,
     hasClipboard |-> FALSE, hasDialog |-> FALSE, hasShell |-> FALSE]

\* const isNative = !!window.__TAURI__ : the global flag is not consulted
IsNativeTauriOnly(tn, t) == t
\* const isNative = !!window.__TAURI_NATIVE__ || !!window.__TAURI__
IsNative(tn, t) == tn \/ t

\* 'clipboard' in navigator is dropped from hasClipboard
DetectNoClip(tn, t, notif, clip) ==
    LET isNative == IsNative(tn, t) IN
    [isNative |-> isNative, hasFileSystem |-> isNative,
     hasNotifications |-> isNative \/ notif, hasClipboard |-> isNative,
     hasDialog |-> isNative, hasShell |-> isNative]
\* The record checkCapabilities passes to setCapabilities.
Detect(tn, t, notif, clip) ==
    LET isNative == IsNative(tn, t) IN
    [isNative |-> isNative, hasFileSystem |-> isNative,
     hasNotifications |-> isNative \/ notif, hasClipboard |-> isNative \/ clip,
     hasDialog |-> isNative, hasShell |-> isNative]

\* `zos:file:${path}` without the path
FileKeyConstant(path) == "zos:file:"
\* `zos:file:${path}`
FileKey(path) == "zos:file:" \o path

\* localStorage.getItem(key): the value, or null when the key is absent.
GetItem(store, key) == IF key \in DOMAIN store THEN store[key] ELSE NULL

\* localStorage.setItem(key, value), when it does not throw.
SetItem(store, key, value) ==
    [k \in DOMAIN store \cup {key} |-> IF k = key THEN value ELSE store[k]]

\* v without the || ''
OrEmptyDropped(v) == v
\* v || '' : null and the empty string both give ''.
OrEmpty(v) == IF v = NULL \/ v = "" THEN "" ELSE v

\* getItem(path) || '' : the key prefix is missing
BrowserReadFileNoPrefix(store, path) == OrEmpty(GetItem(store, path))
\* localStorage.getItem(`zos:file:${path}`) || ''
BrowserReadFile(store, path) == OrEmpty(GetItem(store, FileKey(path)))

\* ---------------------------------------------------------------- calls
\* A call as it starts.  arg is the path (file operations), "multiple" or
\* "single" (the file input of a browser showOpenDialog), or "".  perm0 is
\* Notification.permission when a browser notify started; user is what the
\* user did (the permission answer; "ok" or "cancel" in the
\* prompt) and text the prompt's text field at that moment; effects are the
\* browser APIs the call has used; requests, imports and bridge count its
\* permission requests, dynamic imports and bridge invocations.
NewCall(op, arg, route) ==
    [op |-> op, arg |-> arg, route |-> route, pc |-> "start",
     outcome |-> "pending", result |-> NULL, error |-> NULL,
     perm0 |-> NULL, user |-> NULL, text |-> NULL, effects |-> {},
     requests |-> 0, imports |-> 0, bridge |-> 0]

\* "No call has finished yet".
NoCall == NewCall("none", "", "none")

\* The calls that are awaiting something.
Pending == BagToSet(inflight)

\* One more call may suspend: a call that would await something starts only
\* while fewer than MaxPending calls are awaiting.
CanSuspend == BagCardinality(inflight) < MaxPending

\* The call c starts awaiting; the awaiting call c continues.
Suspend(c) == inflight' = inflight (+) SetToBag({c})
Resume(c) == inflight' = inflight (-) SetToBag({c})

TypeOK ==
    /\ tauri \in BOOLEAN /\ tauriNative \in BOOLEAN
    /\ hasNotifApi \in BOOLEAN /\ hasClipApi \in BOOLEAN
    /\ permission \in {"default", "granted", "denied"}
    /\ phase \in {"Uninitialized", "Detected"}
    /\ DOMAIN localStorage \subseteq {FileKey(p) : p \in Paths}
    /\ written \subseteq Paths

Init ==
    /\ tauri \in BOOLEAN
    /\ tauriNative \in BOOLEAN
    /\ hasNotifApi \in BOOLEAN
    /\ hasClipApi \in BOOLEAN
    \* Notification.permission is read by the browser branch of notify alone:
    \* it varies where that branch can run.
    /\ permission \in (IF hasNotifApi /\ ~tauri THEN {"default", "granted", "denied"}
                                              ELSE {"default"})
    /\ localStorage = << >>
    /\ capabilities = InitialCapabilities
    /\ phase = "Uninitialized"
    /\ markerAtDetect = FALSE
    /\ inflight = EmptyBag
    /\ last = NoCall
    /\ lastStored = [p \in Paths |-> NULL]
    /\ written = {}

\* ---------------------------------------------------------------- environment
\* The host injects window.__TAURI__ (it is never removed).
InjectTauri ==
    /\ ~tauri
    /\ tauri' = TRUE
    /\ UNCHANGED <<tauriNative, hasNotifApi, hasClipApi, permission, hookVars,
                   fileVars, inflight, last>>

\* The host injects window.__TAURI_NATIVE__ (it is never removed).  The
\* detection effect is the flag's only reader, so an injection after it has
\* run changes nothing the program does and is left out.
InjectTauriNative ==
    /\ ~tauriNative
    /\ phase = "Uninitialized"
    /\ tauriNative' = TRUE
    /\ UNCHANGED <<tauri, hasNotifApi, hasClipApi, permission, hookVars,
                   fileVars, inflight, last>>

\* ---------------------------------------------------------------- detection
\* The mount effect: checkCapabilities() runs to its end (it awaits nothing).
CheckCapabilities ==
    /\ phase = "Uninitialized"
    /\ capabilities' = Detect(tauriNative, tauri, hasNotifApi, hasClipApi)
    /\ markerAtDetect' = (tauriNative \/ tauri)
    /\ phase' = "Detected"
    /\ UNCHANGED <<envVars, permission, fileVars, inflight, last>>

\* ---------------------------------------------------------------- native branch
\* if (window.__TAURI__) { const mod = await import(...) : the call suspends
\* on the dynamic import.
StartNative(op, arg) ==
    /\ CanSuspend
    /\ Suspend([NewCall(op, arg, "native") EXCEPT !.pc = "import", !.imports = 1])
    /\ last' = NoCall

\* The browser API the fallback of each operation reaches first.
BrowserApi(op) ==
    CASE op = "readFile" -> "localStorage.getItem"
      [] op = "writeFile" -> "localStorage.setItem"
      [] op = "notify" -> "new Notification"
      [] op = "copyToClipboard" -> "clipboard.writeText"
      [] op = "readFromClipboard" -> "clipboard.readText"
      [] op = "showOpenDialog" -> "input.click"
      [] op = "showSaveDialog" -> "prompt"
      [] OTHER -> "window.open"

\* A native failure caught and answered by the browser fallback
NativeFailureFallsBack(c, err) ==
    [c EXCEPT !.pc = "done", !.outcome = "resolved", !.error = err,
              !.effects = {BrowserApi(c.op)}]
\* The import or the bridge call rejects: nothing catches it, the operation's
\* promise rejects.
NativeFailure(c, err) ==
    [c EXCEPT !.pc = "done", !.outcome = "rejected", !.error = err]

\* The dynamic import resolves; the operation calls the plugin function.
ImportOk ==
    \E c \in Pending :
        /\ c.pc = "import"
        /\ inflight' = (inflight (-) SetToBag({c}))
                            (+) SetToBag({[c EXCEPT !.pc = "bridge", !.bridge = @ + 1]})
        /\ UNCHANGED <<envVars, permission, hookVars, fileVars, last>>

\* The dynamic import rejects (the bridge module failed to load).
ImportFail ==
    \E c \in Pending :
        /\ c.pc = "import"
        /\ last' = NativeFailure(c, "HostUnavailable")
        /\ Resume(c)
        /\ UNCHANGED <<envVars, permission, hookVars, fileVars>>

\* if (!result) return []; return Array.isArray(result) ? result : [result]
OpenDialogResult(raw) ==
    IF raw.kind = "null" \/ (raw.kind = "string" /\ raw.val = <<"">>) THEN << >>
    ELSE raw.val

\* What the dialog plugin's open() may resolve to: null, one path, an array.
NativeOpenReplies ==
    {[kind |-> "null", val |-> << >>], [kind |-> "string", val |-> <<"/a">>],
     [kind |-> "string", val |-> <<"">>], [kind |-> "array", val |-> <<"/a", "/b">>]}

\* The value the operation returns, given what the plugin function resolved to.
NativeResult(op, raw) ==
    CASE op = "readFile" -> raw
      [] op = "readFromClipboard" -> OrEmpty(raw)
      [] op = "showOpenDialog" -> OpenDialogResult(raw)
      [] op = "showSaveDialog" -> raw
      [] OTHER -> NULL

\* What the plugin function of each operation may resolve to.
NativeReplies(op) ==
    CASE op = "readFile" -> Contents
      [] op = "readFromClipboard" -> Contents \cup {NULL}
      [] op = "showOpenDialog" -> NativeOpenReplies
      [] op = "showSaveDialog" -> Paths \cup {NULL}
      [] OTHER -> {NULL}

\* The bridge call resolves.
BridgeResolve ==
    \E c \in Pending :
        /\ c.pc = "bridge"
        /\ \E raw \in NativeReplies(c.op) :
              last' = [c EXCEPT !.pc = "done", !.outcome = "resolved",
                                !.result = NativeResult(c.op, raw)]
        /\ Resume(c)
        /\ written' = IF c.op = "writeFile" THEN written \cup {c.arg} ELSE written
        /\ UNCHANGED <<envVars, permission, hookVars, localStorage, lastStored>>

\* The bridge call rejects.
BridgeReject ==
    \E c \in Pending :
        /\ c.pc = "bridge"
        /\ last' = NativeFailure(c, "HostUnavailable")
        /\ Resume(c)
        /\ UNCHANGED <<envVars, permission, hookVars, fileVars>>

\* ---------------------------------------------------------------- file system
\* readFile(path).  Browser fallback: one synchronous localStorage read.
ReadFile ==
    \E path \in Paths :
        /\ \/ /\ tauri
              /\ StartNative("readFile", path)
           \/ /\ ~tauri
              /\ last' = [NewCall("readFile", path, "browser") EXCEPT
                            !.pc = "done", !.outcome = "resolved",
                            !.result = BrowserReadFile(localStorage, path),
                            !.effects = {BrowserApi("readFile")}]
              /\ UNCHANGED inflight
        /\ UNCHANGED <<envVars, permission, hookVars, fileVars>>

\* writeFile(path, content).  Browser fallback: one synchronous
\* localStorage.setItem, which stores the value or throws (quota exceeded).
WriteFile ==
    \E path \in Paths, content \in Contents :
        /\ \/ /\ tauri
              /\ StartNative("writeFile", path)
              /\ UNCHANGED fileVars
           \/ /\ ~tauri
              /\ localStorage' = SetItem(localStorage, FileKey(path), content)
              /\ lastStored' = [lastStored EXCEPT ![path] = content]
              /\ written' = written \cup {path}
              /\ last' = [NewCall("writeFile", path, "browser") EXCEPT
                            !.pc = "done", !.outcome = "resolved",
                            !.effects = {BrowserApi("writeFile")}]
              /\ UNCHANGED inflight
           \/ /\ ~tauri
              /\ last' = [NewCall("writeFile", path, "browser") EXCEPT
                            !.pc = "done", !.outcome = "rejected",
                            !.error = "QuotaExceeded",
                            !.effects = {BrowserApi("writeFile")}]
              /\ UNCHANGED <<fileVars, inflight>>
        /\ UNCHANGED <<envVars, permission, hookVars>>

\* ---------------------------------------------------------------- notifications
\* The notification is displayed whatever the answer
ShowAfterRequestAlways(answer) == TRUE
\* if (permission === 'granted') new Notification(...)
ShowAfterRequest(answer) == answer = "granted"

\* What Notification.requestPermission() may resolve to: the user's answer
\* when the permission is undetermined (dismissing the prompt leaves it
\* "default"), else the permission as it stands, without a prompt.
PermissionAnswers(perm) ==
    IF perm = "default" THEN {"granted", "denied", "default"} ELSE {perm}

\* notify(title, body).
Notify ==
    /\ \/ /\ tauri
          /\ StartNative("notify", "")
       \/ /\ ~tauri /\ hasNotifApi /\ permission = "granted"
          /\ last' = [NewCall("notify", "", "browser") EXCEPT
                        !.pc = "done", !.outcome = "resolved", !.perm0 = permission,
                        !.effects = {"new Notification"}]
          /\ UNCHANGED inflight
       \/ /\ ~tauri /\ hasNotifApi /\ permission # "granted"
          /\ CanSuspend
          /\ Suspend([NewCall("notify", "", "browser") EXCEPT
                        !.pc = "permission", !.perm0 = permission, !.requests = 1,
                        !.effects = {"Notification.requestPermission"}])
          /\ last' = NoCall
       \/ /\ ~tauri /\ ~hasNotifApi
          /\ last' = [NewCall("notify", "", "browser") EXCEPT
                        !.pc = "done", !.outcome = "resolved"]
          /\ UNCHANGED inflight
    /\ UNCHANGED <<envVars, permission, hookVars, fileVars>>

\* Notification.requestPermission() resolves; notify continues to its end.
PermissionAnswer ==
    \E c \in Pending :
        /\ c.op = "notify" /\ c.pc = "permission"
        /\ \E answer \in PermissionAnswers(permission) :
              /\ permission' = answer
              /\ last' = [c EXCEPT
                            !.pc = "done", !.outcome = "resolved", !.user = answer,
                            !.effects = IF ShowAfterRequest(answer)
                                        THEN @ \cup {"new Notification"} ELSE @]
        /\ Resume(c)
        /\ UNCHANGED <<envVars, hookVars, fileVars>>

\* ---------------------------------------------------------------- clipboard
\* copyToClipboard(text).  Without the clipboard API navigator.clipboard is
\* undefined and the call throws a TypeError.
CopyToClipboard ==
    \E text \in Contents :
        /\ \/ /\ tauri
              /\ StartNative("copyToClipboard", "")
           \/ /\ ~tauri /\ hasClipApi
              /\ CanSuspend
              /\ Suspend([NewCall("copyToClipboard", "", "browser") EXCEPT
                            !.pc = "clipboard", !.effects = {"clipboard.writeText"}])
              /\ last' = NoCall
           \/ /\ ~tauri /\ ~hasClipApi
              /\ last' = [NewCall("copyToClipboard", "", "browser") EXCEPT
                            !.pc = "done", !.outcome = "rejected", !.error = "TypeError"]
              /\ UNCHANGED inflight
        /\ UNCHANGED <<envVars, permission, hookVars, fileVars>>

\* readFromClipboard().
ReadFromClipboard ==
    /\ \/ /\ tauri
          /\ StartNative("readFromClipboard", "")
       \/ /\ ~tauri /\ hasClipApi
          /\ CanSuspend
          /\ Suspend([NewCall("readFromClipboard", "", "browser") EXCEPT
                        !.pc = "clipboard", !.effects = {"clipboard.readText"}])
          /\ last' = NoCall
       \/ /\ ~tauri /\ ~hasClipApi
          /\ last' = [NewCall("readFromClipboard", "", "browser") EXCEPT
                        !.pc = "done", !.outcome = "rejected", !.error = "TypeError"]
          /\ UNCHANGED inflight
    /\ UNCHANGED <<envVars, permission, hookVars, fileVars>>

\* navigator.clipboard.writeText / readText resolves.
ClipboardResolve ==
    \E c \in Pending :
        /\ c.pc = "clipboard"
        /\ \E value \in (IF c.op = "readFromClipboard" THEN Contents ELSE {NULL}) :
              last' = [c EXCEPT !.pc = "done", !.outcome = "resolved", !.result = value]
        /\ Resume(c)
        /\ UNCHANGED <<envVars, permission, hookVars, fileVars>>

\* navigator.clipboard.writeText / readText rejects (the browser denies access).
ClipboardReject ==
    \E c \in Pending :
        /\ c.pc = "clipboard"
        /\ last' = [c EXCEPT !.pc = "done", !.outcome = "rejected",
                              !.error = "PermissionDenied"]
        /\ Resume(c)
        /\ UNCHANGED <<envVars, permission, hookVars, fileVars>>

\* ---------------------------------------------------------------- dialogs
\* What the user may pick in the file input: one file, or several when
\* input.multiple is set.
Selections(arg) ==
    {<<f>> : f \in FileNames} \cup
    (IF arg = "multiple" THEN {<<"f.txt", "g.txt">>} ELSE {})

\* showOpenDialog(options).  Browser fallback: a file input is created, its
\* onchange handler resolves the promise, and the picker is opened.
ShowOpenDialog ==
    \E multiple \in BOOLEAN :
        LET arg == IF multiple THEN "multiple" ELSE "single" IN
        /\ \/ /\ tauri
              /\ StartNative("showOpenDialog", "")
           \/ /\ ~tauri
              /\ CanSuspend
              /\ Suspend([NewCall("showOpenDialog", arg, "browser") EXCEPT
                            !.pc = "picker", !.effects = {"input.click"}])
              /\ last' = NoCall
        /\ UNCHANGED <<envVars, permission, hookVars, fileVars>>

\* The user picks files: the input's change event fires, onchange resolves
\* the promise with the files' names.
PickerChange ==
    \E c \in Pending :
        /\ c.op = "showOpenDialog" /\ c.pc = "picker"
        /\ \E files \in Selections(c.arg) :
              last' = [c EXCEPT !.pc = "done", !.outcome = "resolved",
                                !.user = "ok", !.result = files]
        /\ Resume(c)
        /\ UNCHANGED <<envVars, permission, hookVars, fileVars>>

\* The user dismisses the picker: no change event fires, and the operation
\* registered no other handler, so nothing of the call runs, now or later:
\* no action of this module applies to a dismissed call.
PickerCancel ==
    \E c \in Pending :
        /\ c.op = "showOpenDialog" /\ c.pc = "picker"
        /\ inflight' = (inflight (-) SetToBag({c}))
                            (+) SetToBag({[c EXCEPT !.pc = "dismissed", !.user = "cancel"]})
        /\ UNCHANGED <<envVars, permission, hookVars, fileVars, last>>

\* options?.defaultPath || 'untitled.txt'
Prefill(defaultPath) ==
    IF defaultPath = NULL \/ defaultPath = "" THEN "untitled.txt" ELSE defaultPath

\* prompt(...) || '' : a cancelled prompt gives ''
PromptOrEmpty(user, text) == IF user = "ok" THEN text ELSE ""
\* window.prompt: the text of the field when the user confirms, null when
\* the user cancels.
Prompt(user, text) == IF user = "ok" THEN text ELSE NULL

\* showSaveDialog(options).  Browser fallback: one synchronous prompt.
ShowSaveDialog ==
    \E defaultPath \in {NULL, "", "d.txt"} :
        /\ \/ /\ tauri
              /\ StartNative("showSaveDialog", "")
           \/ /\ ~tauri
              /\ \E user \in {"ok", "cancel"} :
                  \E text \in (IF user = "ok" THEN {Prefill(defaultPath), "n.txt"}
                                              ELSE {Prefill(defaultPath)}) :
                    last' = [NewCall("showSaveDialog", "", "browser") EXCEPT
                                !.pc = "done", !.outcome = "resolved",
                                !.user = user, !.text = text,
                                !.result = Prompt(user, text),
                                !.effects = {"prompt"}]
              /\ UNCHANGED inflight
        /\ UNCHANGED <<envVars, permission, hookVars, fileVars>>

\* ---------------------------------------------------------------- shell
\* openExternal(url).  Browser fallback: window.open(url, '_blank').
OpenExternal ==
    \E url \in Urls :
        /\ \/ /\ tauri
              /\ StartNative("openExternal", "")
           \/ /\ ~tauri
              /\ last' = [NewCall("openExternal", "", "browser") EXCEPT
                            !.pc = "done", !.outcome = "resolved",
                            !.effects = {"window.open"}]
              /\ UNCHANGED inflight
        /\ UNCHANGED <<envVars, permission, hookVars, fileVars>>

\* ---------------------------------------------------------------- specification
Next ==
    \/ InjectTauri
    \/ InjectTauriNative
    \/ CheckCapabilities
    \/ ReadFile
    \/ WriteFile
    \/ Notify
    \/ CopyToClipboard
    \/ ReadFromClipboard
    \/ ShowOpenDialog
    \/ ShowSaveDialog
    \/ OpenExternal
    \/ ImportOk
    \/ ImportFail
    \/ BridgeResolve
    \/ BridgeReject
    \/ PermissionAnswer
    \/ ClipboardResolve
    \/ ClipboardReject
    \/ PickerChange
    \/ PickerCancel

Spec == Init /\ [][Next]_vars

\* The event loop runs every continuation whose awaited event has arrived,
\* and every awaited event arrives: the mount effect runs, imports and bridge
\* calls settle, the browser answers, the user acts on an open picker.
Fairness ==
    /\ WF_vars(CheckCapabilities)
    /\ WF_vars(ImportOk \/ ImportFail)
    /\ WF_vars(BridgeResolve \/ BridgeReject)
    /\ WF_vars(PermissionAnswer)
    /\ WF_vars(ClipboardResolve \/ ClipboardReject)
    /\ WF_vars(PickerChange \/ PickerCancel)

FairSpec == Init /\ [][Next]_vars /\ Fairness

\* ---------------------------------------------------------------- properties
Finished(c) == c.op # "none" /\ c.pc = "done"
Shown(c) == "new Notification" \in c.effects

\* C1: once detection has run, every capability operation has taken the
\* native path if and only if the detected isNative flag is true, and the
\* calls of one session all take the same path.
C1_RouteFollowsIsNative ==
    /\ \A c \in Pending : phase = "Detected" =>
            (c.route = "native" <=> capabilities.isNative)
    /\ phase = "Detected" /\ last.op # "none" =>
            (last.route = "native" <=> capabilities.isNative)
    /\ \A c, d \in Pending : c.route = d.route
    /\ \A c \in Pending : last.op # "none" => c.route = last.route

\* The flags of a browser-only environment.
BrowserFlags ==
    /\ ~capabilities.isNative
    /\ ~capabilities.hasFileSystem /\ ~capabilities.hasDialog /\ ~capabilities.hasShell
    /\ capabilities.hasClipboard = hasClipApi
    /\ capabilities.hasNotifications = hasNotifApi

AllFlags ==
    /\ capabilities.isNative /\ capabilities.hasFileSystem
    /\ capabilities.hasNotifications /\ capabilities.hasClipboard
    /\ capabilities.hasDialog /\ capabilities.hasShell

\* C2 as stated: whenever no native marker is present, isNative,
\* hasFileSystem, hasDialog and hasShell are false, hasClipboard is the
\* presence of the clipboard API and hasNotifications the presence of the
\* Notification API.
C2_NoMarkerFlags == ~(tauri \/ tauriNative) => BrowserFlags

\* C2 amended: once the detection effect has run, if no native marker was
\* present when it ran, the flags are those of a browser-only environment.
C2_NoMarkerFlagsOnceDetected ==
    phase = "Detected" /\ ~markerAtDetect => BrowserFlags

C2_Witness ==
    /\ phase = "Detected" /\ ~markerAtDetect
    /\ hasClipApi /\ ~hasNotifApi
    /\ capabilities.hasClipboard /\ ~capabilities.hasNotifications

\* C3 as stated: whenever a native marker is present, all six capability
\* flags are true, whatever browser APIs exist.
C3_MarkerFlags == (tauri \/ tauriNative) => AllFlags

\* C3 amended: once the detection effect has run, if a native marker was
\* present when it ran, all six capability flags are true, whatever browser
\* APIs exist.
C3_MarkerFlagsOnceDetected ==
    phase = "Detected" /\ markerAtDetect => AllFlags

C3_Witness ==
    /\ phase = "Detected" /\ markerAtDetect
    /\ tauriNative /\ ~tauri
    /\ ~hasClipApi /\ ~hasNotifApi
    /\ capabilities.hasClipboard /\ capabilities.hasShell

\* C4: a browser-fallback readFile(P) that follows a browser-fallback
\* writeFile(P, C) which stored C, with no later write to P, returns exactly C
\* (the empty string included).
C4_RoundTrip ==
    Finished(last) /\ last.op = "readFile" /\ last.route = "browser"
        /\ lastStored[last.arg] # NULL
    => last.outcome = "resolved" /\ last.result = lastStored[last.arg]

C4_Witness ==
    /\ Finished(last) /\ last.op = "readFile" /\ last.route = "browser"
    /\ lastStored[last.arg] = "x" /\ last.result = "x"
    /\ \E p \in Paths : p # last.arg /\ lastStored[p] = ""

\* A browser-fallback showOpenDialog call whose picker was dismissed.
DismissedPicker(arg) ==
    [NewCall("showOpenDialog", arg, "browser") EXCEPT
        !.pc = "dismissed", !.user = "cancel", !.effects = {"input.click"}]

\* C5: every browser-fallback showOpenDialog call whose picker is dismissed
\* without a selection eventually has its promise resolved with [].
C5_CancelResolvesEmpty ==
    \A arg \in {"single", "multiple"} :
        BagIn(DismissedPicker(arg), inflight)
        ~> (~BagIn(DismissedPicker(arg), inflight)
            /\ Finished(last) /\ last.op = "showOpenDialog" /\ last.route = "browser"
            /\ last.user = "cancel" /\ last.outcome = "resolved"
            /\ last.result = << >>)

\* C6: a native-path operation whose import or bridge call fails is
\* rejected, has used no browser API, and has made one import and at most
\* one bridge call (no retry); no native-path call ever uses a browser API.
C6_NativeFailureRejects ==
    /\ last.op # "none" /\ last.route = "native" /\ last.error # NULL =>
            /\ last.outcome = "rejected"
            /\ last.effects = {}
            /\ last.imports = 1 /\ last.bridge <= 1
    /\ last.op # "none" /\ last.route = "native" => last.effects = {}
    /\ \A c \in Pending : c.route = "native" =>
            c.effects = {} /\ c.imports = 1 /\ c.bridge <= 1

C6_Witness ==
    /\ last.op = "writeFile" /\ last.route = "native"
    /\ last.outcome = "rejected" /\ last.bridge = 1
    /\ localStorage = << >>

\* C7 as stated: a browser-fallback notify displays at once and requests
\* nothing when permission is granted; requests once and displays only on a
\* granted answer when permission is undetermined; and when permission is
\* denied requests nothing, displays nothing and resolves.
C7_NotifyPermission ==
    Finished(last) /\ last.op = "notify" /\ last.route = "browser" =>
        /\ last.outcome = "resolved"
        /\ last.perm0 = "granted" => last.requests = 0 /\ Shown(last)
        /\ last.perm0 = "default" =>
                last.requests = 1 /\ (Shown(last) <=> last.user = "granted")
        /\ last.perm0 = "denied" => last.requests = 0 /\ ~Shown(last)

\* C7 amended: as stated, except that with permission denied notify still
\* calls Notification.requestPermission once (answered "denied" without a
\* prompt), then displays nothing and resolves.
C7_NotifyPermissionRequestsWhenDenied ==
    Finished(last) /\ last.op = "notify" /\ last.route = "browser" =>
        /\ last.outcome = "resolved"
        /\ last.perm0 = "granted" => last.requests = 0 /\ Shown(last)
        /\ last.perm0 = "default" =>
                last.requests = 1 /\ (Shown(last) <=> last.user = "granted")
        /\ last.perm0 = "denied" =>
                last.requests = 1 /\ last.user = "denied" /\ ~Shown(last)

C7_Witness ==
    /\ Finished(last) /\ last.op = "notify" /\ last.route = "browser"
    /\ last.perm0 = "denied" /\ last.requests = 1 /\ last.outcome = "resolved"

\* C8 as stated: in every session, readFile on a path no writeFile has
\* written resolves to the empty string and never fails.
C8_ReadUnwritten ==
    Finished(last) /\ last.op = "readFile" /\ last.arg \notin written =>
        last.outcome = "resolved" /\ last.result = ""

\* C8 amended: a readFile that takes the browser fallback, on a path no
\* writeFile has written, resolves to the empty string and never fails.
C8_BrowserReadUnwritten ==
    Finished(last) /\ last.op = "readFile" /\ last.route = "browser"
        /\ last.arg \notin written =>
        last.outcome = "resolved" /\ last.result = ""

C8_Witness ==
    /\ Finished(last) /\ last.op = "readFile" /\ last.route = "browser"
    /\ last.arg \notin written /\ last.result = ""
    /\ \E p \in written : lastStored[p] = "x"

\* C9: a browser-fallback showSaveDialog resolves (never rejects): to null
\* when the user cancels the prompt, to the entered filename when the user
\* confirms.
C9_SaveDialogPrompt ==
    Finished(last) /\ last.op = "showSaveDialog" /\ last.route = "browser" =>
        /\ last.outcome = "resolved"
        /\ last.user = "cancel" => last.result = NULL
        /\ last.user = "ok" => last.result = last.text

C9_Witness ==
    /\ Finished(last) /\ last.op = "showSaveDialog" /\ last.route = "browser"
    /\ last.user = "cancel" /\ last.result = NULL /\ last.outcome = "resolved"

\* C10: the store holds exactly one entry 'zos:file:' + P for each path P a
\* browser write has stored, with the content of the last such write to P:
\* a write to one path changes no other entry.
C10_LastWriteWinsPerKey ==
    /\ DOMAIN localStorage = {"zos:file:" \o p : p \in {q \in Paths : lastStored[q] # NULL}}
    /\ \A p \in Paths : lastStored[p] # NULL =>
            localStorage["zos:file:" \o p] = lastStored[p]

C10_Witness ==
    /\ last.op = "writeFile" /\ last.route = "browser" /\ last.outcome = "resolved"
    /\ \E p, q \in Paths :
          /\ p # q /\ last.arg = q
          /\ DOMAIN localStorage = {"zos:file:" \o p, "zos:file:" \o q}
          /\ localStorage["zos:file:" \o p] = "x" /\ localStorage["zos:file:" \o q] = ""

====
